---- MODULE Spec2Model ----
(***************************************************************************)
(* Chatti: the socket.io chat server (server.js) and its SQLite store      *)
(* (database.js, second half of src/server.js).                            *)
(*                                                                         *)
(* Three specifications share the store operators:                         *)
(*   Spec      - the event router: connection, join_room, send_message,    *)
(*               typing, create_room and disconnect handlers, and the      *)
(*               restart of the process;                                   *)
(*   SpecStore - the store alone, started on a persisted chat.db whose     *)
(*               rooms already hold up to RetentionCap messages;           *)
(*   SpecRooms - the catalog: database.createRoom on a fresh chat.db, and  *)
(*               its listing to a new socket and by GET /api/rooms.        *)
(***************************************************************************)
EXTENDS Integers, Sequences, FiniteSets, TLC

VARIABLES
    rooms,        \* table rooms, in rowid order: [id, name, created_at]
    messages,     \* table messages, in rowid order
    msgSeq,       \* sqlite_sequence of messages (AUTOINCREMENT)
    clock,        \* CURRENT_TIMESTAMP of the last statement, in seconds
    status,       \* socket id -> "new" | "live" | "closed"
    data,         \* socket id -> socket.data = [username, currentRoom]
    joined,       \* socket id -> socket.rooms, the transport-level rooms
    roomUsers,    \* the Map room name -> Set of socket ids
    out,          \* events emitted by the last handler, in order
    http,         \* response of the last HTTP request
    appended,     \* history: room name -> ids returned by saveMessage
    sends,        \* history: number of saveMessage calls so far
    last,         \* history: the operation that ran last
    ui            \* App.tsx: the state of the one browser client

vars == <<rooms, messages, msgSeq, clock, status, data, joined, roomUsers,
          out, http, appended, sends, last, ui>>

serverVars == <<rooms, messages, msgSeq, clock, status, data, joined,
                roomUsers, out, http, appended, sends, last>>

dbVars == <<rooms, messages, msgSeq, clock>>
ioVars == <<status, data, joined, roomUsers, out>>

----------------------------------------------------------------------------
(* Bounds and input sets *)

NumConns == 2
MaxSends == 1
MaxInFlight == 2
MaxAppends == 1
PriorSlack == 1

Conns == 1..NumConns
Suffixes == 1..2
Texts == {"hello", "moi"}
Plans == {"idx_messages_room", "idx_messages_timestamp"}
RoomPlans == {"scan_rooms"}
CreateNames == {"Launch", "General"}
StoreCreateNames == {"General", "Launch", "Lobby", "Arcade"}
StoreRoomNames == {"General", "Technology", "Nowhere"}
JoinNames == {"General", "Launch", "Nowhere"}
AllNames == {"General", "Technology", "Random", "Support", "Launch", "Nowhere"}

(* Program constants *)
RetentionCap == 100
HistoryLimit == 100
defaultRooms == <<"General", "Technology", "Random", "Support">>


----------------------------------------------------------------------------
(* SQL helpers *)

Min(a, b) == IF a < b THEN a ELSE b

\* JavaScript null, for a room name and for a row.
null == "<null>"

NoRoomRow == [id |-> 0, name |-> null, created_at |-> 0]

NoMessage == [id |-> null, room_id |-> 0, username |-> null, text |-> null,
              timestamp |-> [fmt |-> null, sec |-> 0]]

\* Rows with equal ORDER BY keys come out in the order the engine scans
\* them: ascending rowid, or descending when an index is walked backwards.
Scan(rows, tie) ==
    IF tie = "asc" THEN rows
    ELSE [i \in 1..Len(rows) |-> rows[Len(rows) + 1 - i]]

\* ORDER BY over the scanned rows: a stable sort of the row positions by
\* keys[i], ascending or descending.
RECURSIVE Merge(_, _, _, _)
Merge(a, b, keys, dir) ==
    IF a = <<>> THEN b
    ELSE IF b = <<>> THEN a
    ELSE IF \/ dir = "ASC" /\ keys[Head(a)] <= keys[Head(b)]
            \/ dir = "DESC" /\ keys[Head(a)] >= keys[Head(b)]
         THEN <<Head(a)>> \o Merge(Tail(a), b, keys, dir)
         ELSE <<Head(b)>> \o Merge(a, Tail(b), keys, dir)

RECURSIVE SortPositions(_, _, _)
SortPositions(pos, keys, dir) ==
    IF Len(pos) <= 1 THEN pos
    ELSE LET h == Len(pos) \div 2
         IN  Merge(SortPositions(SubSeq(pos, 1, h), keys, dir),
                   SortPositions(SubSeq(pos, h + 1, Len(pos)), keys, dir),
                   keys, dir)

OrderBy(keys, dir) == SortPositions([i \in 1..Len(keys) |-> i], keys, dir)

\* The order in which a query meets rows with equal ORDER BY keys.  The
\* rooms table has no index on created_at: it is scanned in rowid order and
\* then sorted.  Through idx_messages_room the rows of a room come in rowid
\* order and are then sorted; idx_messages_timestamp is walked in the ORDER
\* BY direction, backwards for DESC.
TieOf(plan, dir) ==
    IF plan = "idx_messages_timestamp" /\ dir = "DESC" THEN "desc" ELSE "asc"

\* LIMIT n
Limit(rows, n) == SubSeq(rows, 1, Min(Len(rows), n))

\* DATETIME DEFAULT CURRENT_TIMESTAMP: 'YYYY-MM-DD HH:MM:SS', whole seconds.
SqlTime(t) == [fmt |-> "sql", sec |-> t]

\* new Date().toISOString(): 'YYYY-MM-DDTHH:MM:SS.sssZ'.
IsoTime(t) == [fmt |-> "iso", sec |-> t]

\* The seconds a statement run now can read from the wall clock.
Now == {clock, clock + 1}

----------------------------------------------------------------------------
(* database.js: prepared statements *)

RoomRows(name) == {i \in DOMAIN rooms : rooms[i].name = name}

\* getRoomByName: SELECT * FROM rooms WHERE name = ?
stmt_getRoomByName(name) ==
    IF RoomRows(name) = {} THEN NoRoomRow
    ELSE rooms[CHOOSE i \in RoomRows(name) : TRUE]

\* Mutant of stmt_createRoom: a plain INSERT on a column that is not UNIQUE.
stmt_createRoom_plainInsert(rms, name, t) ==
    Append(rms, [id |-> Len(rms) + 1, name |-> name, created_at |-> t])

\* createRoom: INSERT OR IGNORE INTO rooms (name) VALUES (?); name is UNIQUE.
stmt_createRoom(rms, name, t) ==
    IF \E i \in DOMAIN rms : rms[i].name = name
    THEN rms
    ELSE Append(rms, [id |-> Len(rms) + 1, name |-> name, created_at |-> t])

\* Mutant of stmt_getAllRooms: ORDER BY created_at DESC.
stmt_getAllRooms_newestFirst(tie) ==
    LET scanned == Scan(rooms, tie)
        order == OrderBy([i \in DOMAIN scanned |-> scanned[i].created_at], "DESC")
    IN  [k \in DOMAIN order |-> scanned[order[k]]]

\* getAllRooms: SELECT * FROM rooms ORDER BY created_at
stmt_getAllRooms(tie) ==
    LET scanned == Scan(rooms, tie)
        order == OrderBy([i \in DOMAIN scanned |-> scanned[i].created_at], "ASC")
    IN  [k \in DOMAIN order |-> scanned[order[k]]]

\* saveMessage: INSERT INTO messages (room_id, username, text) VALUES (?,?,?)
stmt_saveMessage(room_id, username, text, t) ==
    Append(messages, [id |-> msgSeq + 1, room_id |-> room_id,
                      username |-> username, text |-> text, timestamp |-> t])

\* FROM messages WHERE room_id = ?, in rowid order.
RowsOf(msgs, room_id) == SelectSeq(msgs, LAMBDA m : m.room_id = room_id)

\* Mutant of NewestIds: LIMIT 101.
NewestIds_offByOne(msgs, room_id, plan) ==
    LET scanned == Scan(RowsOf(msgs, room_id), TieOf(plan, "DESC"))
        order == OrderBy([i \in DOMAIN scanned |-> scanned[i].timestamp], "DESC")
        top == Limit(order, RetentionCap + 1)
    IN  {scanned[top[k]].id : k \in DOMAIN top}

\* SELECT id FROM messages WHERE room_id = ? ORDER BY timestamp DESC LIMIT 100
NewestIds(msgs, room_id, plan) ==
    LET scanned == Scan(RowsOf(msgs, room_id), TieOf(plan, "DESC"))
        order == OrderBy([i \in DOMAIN scanned |-> scanned[i].timestamp], "DESC")
        top == Limit(order, RetentionCap)
    IN  {scanned[top[k]].id : k \in DOMAIN top}

\* deleteOldMessages: DELETE FROM messages WHERE room_id = ? AND id NOT IN (...)
stmt_deleteOldMessages(msgs, room_id, plan) ==
    LET keep == NewestIds(msgs, room_id, plan)
    IN  SelectSeq(msgs, LAMBDA m : m.room_id # room_id \/ m.id \in keep)

\* getMessagesByRoom: SELECT m.*, r.name as room_name FROM messages m
\*   JOIN rooms r ON m.room_id = r.id WHERE r.name = ?
\*   ORDER BY m.timestamp LIMIT 100
stmt_getMessagesByRoom(name, plan) ==
    LET room == stmt_getRoomByName(name)
        scanned == IF room = NoRoomRow THEN <<>>
                   ELSE Scan(RowsOf(messages, room.id), TieOf(plan, "ASC"))
        order == OrderBy([i \in DOMAIN scanned |-> scanned[i].timestamp], "ASC")
        top == Limit(order, HistoryLimit)
    IN  [k \in DOMAIN top |->
           LET m == scanned[top[k]]
           IN  [id |-> m.id, room_id |-> m.room_id, username |-> m.username,
                text |-> m.text, timestamp |-> m.timestamp,
                room_name |-> room.name]]

\* Mutant of stmt_getMessageCount: the count without its WHERE r.name = ?.
stmt_getMessageCount_allRooms(msgs, name) == Len(msgs)

\* getMessageCount: SELECT COUNT(*) as count FROM messages m
\*   JOIN rooms r ON m.room_id = r.id WHERE r.name = ?
stmt_getMessageCount(msgs, name) ==
    LET room == stmt_getRoomByName(name)
    IN  IF room = NoRoomRow THEN 0
        ELSE Len(RowsOf(msgs, room.id))


----------------------------------------------------------------------------
(* database.js: the exported operations.  f names the prepared statement  *)
(* that throws when it is run during the call, or is "none".               *)

\* database.createRoom(name): the new table and the value returned.
db_createRoom(name, t, f) ==
    IF f = "createRoom"
    THEN [rooms |-> rooms, ret |-> FALSE]
    ELSE LET result == stmt_createRoom(rooms, name, t)
         IN  [rooms |-> result, ret |-> Len(result) - Len(rooms) > 0]

\* database.roomExists(name): !!room
db_roomExists(name) == stmt_getRoomByName(name) # NoRoomRow

\* Mutant of db_saveMessage: the row is inserted with whatever id the lookup
\* gave, 0 for no room (foreign keys are not enforced).
db_saveMessage_anyRoom(roomName, username, text, t, plan, f) ==
    LET room == stmt_getRoomByName(roomName)
        inserted == stmt_saveMessage(room.id, username, text, t)
    IN  [messages |-> stmt_deleteOldMessages(inserted, room.id, plan),
         msgSeq   |-> msgSeq + 1,
         ret      |-> [id |-> ToString(msgSeq + 1), room_id |-> room.id,
                       username |-> username, text |-> text,
                       timestamp |-> IsoTime(t)]]

\* database.saveMessage(roomName, username, text): the new table, the new
\* sequence value and the Message returned (NoMessage for null).
db_saveMessage(roomName, username, text, t, plan, f) ==
    LET room == stmt_getRoomByName(roomName)
        inserted == stmt_saveMessage(room.id, username, text, t)
        failed(msgs, seq) == [messages |-> msgs, msgSeq |-> seq,
                              ret |-> NoMessage]
    IN  IF f = "getRoomByName" THEN failed(messages, msgSeq)
        ELSE IF room = NoRoomRow THEN failed(messages, msgSeq)
        ELSE IF f = "saveMessage" THEN failed(messages, msgSeq)
        ELSE IF f = "deleteOldMessages" THEN failed(inserted, msgSeq + 1)
        ELSE [messages |-> stmt_deleteOldMessages(inserted, room.id, plan),
              msgSeq   |-> msgSeq + 1,
              ret      |-> [id |-> ToString(msgSeq + 1), room_id |-> room.id,
                            username |-> username, text |-> text,
                            timestamp |-> IsoTime(t)]]

\* database.getMessagesByRoom(roomName): rows.map(...), [] when it throws.
db_getMessagesByRoom(roomName, plan, f) ==
    IF f = "getMessagesByRoom" THEN <<>>
    ELSE LET rows == stmt_getMessagesByRoom(roomName, plan)
         IN  [k \in DOMAIN rows |->
                [id |-> ToString(rows[k].id), text |-> rows[k].text,
                 username |-> rows[k].username, room |-> rows[k].room_name,
                 timestamp |-> SqlTime(rows[k].timestamp)]]

\* database.getMessageCount(roomName), on a messages table msgs: 0 when it
\* throws.
db_getMessageCount(msgs, roomName, f) ==
    IF f = "getMessageCount" THEN 0 ELSE stmt_getMessageCount(msgs, roomName)

\* Mutant of db_initDefaultRooms: the rooms table is rebuilt from the default
\* names at startup.
db_initDefaultRooms_rebuilt(rms, names, t) ==
    [i \in DOMAIN names |-> [id |-> i, name |-> names[i], created_at |-> t]]

\* database.initDefaultRooms(defaultRooms), on a rooms table rms.
RECURSIVE db_initDefaultRooms(_, _, _)
db_initDefaultRooms(rms, names, t) ==
    IF names = <<>> THEN rms
    ELSE db_initDefaultRooms(stmt_createRoom(rms, Head(names), t),
                             Tail(names), t)


----------------------------------------------------------------------------
(* State after construction *)

\* Math.floor(Math.random() * 10000) is drawn from Suffixes; socket c draws
\* from the first c of them, which gives every pattern of equal and of
\* different usernames once.
SuffixesOf(c) == {n \in Suffixes : n <= c}

Username(n) == "Anonymous-" \o ToString(n)

\* No HTTP request was answered by the last operation.
NoResponse == [status |-> 0, body |-> <<>>]

\* last: the operation, its socket, its room argument, the socket's
\* currentRoom when it began, whether the named room was in the catalog when
\* it began, what createRoom / saveMessage returned to it, the statement
\* that threw while it ran, and the flag given to typing.
Idle == [op |-> "start", conn |-> 0, room |-> null, prev |-> null,
         existed |-> FALSE, created |-> FALSE, saved |-> NoMessage,
         fault |-> "none", isTyping |-> FALSE]

\* App.tsx, the initial useState values: no socket id yet (sid 0), not
\* connected, currentRoom null; emits are the packets written to the transport
\* and not yet handled by the server.
InitClient == [sid |-> 0, isConnected |-> FALSE, currentRoom |-> null,
               emits |-> <<>>]

\* server.js module scope: no socket yet, roomUsers = new Map().
InitServer ==
    /\ ui = InitClient
    /\ status = [c \in Conns |-> "new"]
    /\ data = [c \in Conns |-> [username |-> null, currentRoom |-> null]]
    /\ joined = [c \in Conns |-> {}]
    /\ roomUsers = [n \in {} |-> {}]
    /\ out = <<>>
    /\ http = NoResponse
    /\ sends = 0
    /\ last = Idle

\* A fresh chat.db after database.initDefaultRooms(defaultRooms).
Init ==
    /\ rooms = db_initDefaultRooms(<<>>, defaultRooms, 0)
    /\ messages = <<>>
    /\ msgSeq = 0
    /\ clock = 0
    /\ appended = [n \in AllNames |-> <<>>]
    /\ InitServer

\* A persisted chat.db: General (room 1) already received n messages, rate
\* of them per second, the last one at second 0.
PriorCounts == {0} \cup ((RetentionCap - PriorSlack)..RetentionCap)

PerSecond == {1, 2, RetentionCap + 1}

PriorMessages(n, rate) ==
    [i \in 1..n |-> [id |-> i, room_id |-> 1,
                     username |-> Username(1 + (i % 2)),
                     text |-> IF i % 3 = 0 THEN "hello" ELSE "moi",
                     timestamp |-> 0 - ((n - i) \div rate)]]

InitStore ==
    /\ rooms = db_initDefaultRooms(<<>>, defaultRooms, 0 - RetentionCap)
    /\ \E n \in PriorCounts, rate \in PerSecond :
          /\ messages = PriorMessages(n, rate)
          /\ msgSeq = n
          /\ appended = [r \in AllNames |->
                           IF r = "General" THEN [i \in 1..n |-> i] ELSE <<>>]
    /\ clock = 0
    /\ InitServer

----------------------------------------------------------------------------
(* The store driven directly, and the read-only HTTP queries *)

\* database.createRoom(name)
createRoom(name) ==
    \E t \in Now :
       LET r == db_createRoom(name, t, "none")
       IN  /\ rooms' = r.rooms
           /\ clock' = IF r.ret THEN t ELSE clock
           /\ last' = [Idle EXCEPT !.op = "createRoom", !.room = name,
                                   !.existed = db_roomExists(name),
                                   !.created = r.ret]
           /\ http' = NoResponse
           /\ UNCHANGED <<messages, msgSeq, appended, sends, ioVars>>

\* database.saveMessage(roomName, username, text)
saveMessage(roomName, username, text) ==
    /\ sends < MaxAppends
    /\ sends' = sends + 1
    /\ \E t \in Now, plan \in Plans :
          LET r == db_saveMessage(roomName, username, text, t, plan, "none")
          IN  /\ messages' = r.messages
              /\ msgSeq' = r.msgSeq
              /\ clock' = IF r.msgSeq = msgSeq THEN clock ELSE t
              /\ appended' = IF r.ret = NoMessage THEN appended
                             ELSE [appended EXCEPT ![roomName] =
                                     Append(@, r.msgSeq)]
              /\ last' = [Idle EXCEPT !.op = "saveMessage", !.room = roomName,
                                      !.existed = db_roomExists(roomName),
                                      !.saved = r.ret]
              /\ http' = NoResponse
              /\ UNCHANGED <<rooms, ioVars>>

\* app.get('/api/rooms/:roomName/messages').  last.saved stays the Message
\* returned by the latest saveMessage while only queries follow it.
api_messages(roomName) ==
    /\ \E plan \in Plans :
          http' = [status |-> 200,
                   body |-> db_getMessagesByRoom(roomName, plan, "none")]
    /\ last' = [last EXCEPT !.op = "api_messages", !.room = roomName]
    /\ UNCHANGED <<dbVars, appended, sends, ioVars>>

NextStore ==
    \/ \E roomName \in StoreRoomNames, n \in Suffixes, text \in Texts :
          saveMessage(roomName, Username(n), text) /\ UNCHANGED ui
    \/ \E roomName \in StoreRoomNames :
          api_messages(roomName) /\ UNCHANGED ui

SpecStore == InitStore /\ [][NextStore]_vars



----------------------------------------------------------------------------
(* server.js: audiences and the presence map *)

\* The sockets of the namespace: io.emit reaches all of them.
Live(st) == {c \in Conns : st[c] = "live"}

\* Mutant of ToSelf: io.emit written for socket.emit.
ToSelf_everyone(c) == Live(status)

\* socket.emit: the socket itself.
ToSelf(c) == {c}

\* io.to(room): the sockets whose transport-level rooms include room.
ToRoom(jn, room) == {c \in Conns : room \in jn[c]}

\* Mutant of ToOthers: io.to(room) written for socket.to(room).
ToOthers_withSender(jn, room, c) == ToRoom(jn, room)

\* socket.to(room): the same, without the emitting socket.
ToOthers(jn, room, c) == ToRoom(jn, room) \ {c}

Event(type, to, payload) == [type |-> type, to |-> to, data |-> payload]

\* Mutant of userCount: the catalog annotated without looking at roomUsers.
userCount_zero(ru, room) == 0

\* roomUsers.get(room)?.size || 0
userCount(ru, room) ==
    IF room \in DOMAIN ru THEN Cardinality(ru[room]) ELSE 0

\* Mutant of PresenceDelete: the socket is never taken out of the set.
PresenceDelete_skipped(ru, room, c) == ru

\* roomUsers.get(room)?.delete(socket.id)
PresenceDelete(ru, room, c) ==
    IF room \in DOMAIN ru THEN [ru EXCEPT ![room] = @ \ {c}] ELSE ru

\* Mutant of PresenceAdd: the room's set is replaced by a new one on each join.
PresenceAdd_fresh(ru, room, c) ==
    [n \in DOMAIN ru \cup {room} |-> IF n = room THEN {c} ELSE ru[n]]

\* if (!roomUsers.has(room)) roomUsers.set(room, new Set());
\* roomUsers.get(room).add(socket.id)
PresenceAdd(ru, room, c) ==
    [n \in DOMAIN ru \cup {room} |->
       IF n = room
       THEN (IF room \in DOMAIN ru THEN ru[room] ELSE {}) \cup {c}
       ELSE ru[n]]

\* Mutant of PresenceSet: the Map is replaced by one that holds the new room.
PresenceSet_newMap(ru, room) == [n \in {room} |-> {}]

\* roomUsers.set(room, new Set())
PresenceSet(ru, room) ==
    [n \in DOMAIN ru \cup {room} |-> IF n = room THEN {} ELSE ru[n]]

\* io.emit('room_updated', {name, userCount, messageCount})
room_updated(st, ru, msgs, room, f) ==
    Event("room_updated", Live(st),
          [name |-> room, userCount |-> userCount(ru, room),
           messageCount |-> db_getMessageCount(msgs, room, f)])

\* socket.emit('error', {message})
error(c, message) == Event("error", ToSelf(c), [message |-> message])

----------------------------------------------------------------------------
(* server.js: the handlers.  Each runs to completion; out' is what it      *)
(* emitted.  The timestamp field of user_joined / user_left is left out.   *)

\* io.on('connection')
connection(c) ==
    /\ status[c] = "new"
    /\ \E n \in SuffixesOf(c), plan \in RoomPlans,
          f \in {"none", "getAllRooms"} :
          LET all == stmt_getAllRooms(TieOf(plan, "ASC"))
              list == [k \in DOMAIN all |->
                         [name |-> all[k].name,
                          userCount |-> userCount(roomUsers, all[k].name),
                          messageCount |-> db_getMessageCount(messages, all[k].name,
                                                             f)]]
          IN  /\ status' = [status EXCEPT ![c] = "live"]
              /\ data' = [data EXCEPT ![c] = [username |-> Username(n),
                                              currentRoom |-> null]]
              /\ out' = IF f = "getAllRooms" THEN <<>>
                        ELSE <<Event("rooms_list", ToSelf(c), [rooms |-> list])>>
              /\ last' = [Idle EXCEPT !.op = "connection", !.conn = c,
                                      !.fault = f]
    /\ UNCHANGED <<dbVars, joined, roomUsers, http, appended, sends>>

\* Mutant of leaving: the previous room is never left on a join.
leaving_never(previousRoom, roomName) == FALSE

\* join_room, lines 84-104: leave the previous room, if any and different.
leaving(previousRoom, roomName) ==
    previousRoom # null /\ previousRoom # roomName

\* Mutant of joinedAfterLeave: the handler without its socket.leave.
joinedAfterLeave_stays(c, previousRoom, roomName) == joined

joinedAfterLeave(c, previousRoom, roomName) ==
    IF leaving(previousRoom, roomName)
    THEN [joined EXCEPT ![c] = @ \ {previousRoom}]
    ELSE joined

usersAfterLeave(c, previousRoom, roomName) ==
    IF leaving(previousRoom, roomName)
    THEN PresenceDelete(roomUsers, previousRoom, c)
    ELSE roomUsers

eventsOfLeave(c, previousRoom, roomName, f) ==
    IF leaving(previousRoom, roomName)
    THEN <<Event("user_left",
                 ToOthers(joinedAfterLeave(c, previousRoom, roomName),
                          previousRoom, c),
                 [username |-> data[c].username,
                  message |-> data[c].username \o " left the room"]),
           room_updated(status, usersAfterLeave(c, previousRoom, roomName),
                        messages, previousRoom, f)>>
    ELSE <<>>

\* Mutant of currentRoomAfterJoin: socket.data.currentRoom is assigned before
\* the room is looked up.
currentRoomAfterJoin_early(previousRoom, roomName, found) == roomName

\* join_room, line 115: socket.data.currentRoom when the handler returns;
\* the assignment is reached only when the room was found.
currentRoomAfterJoin(previousRoom, roomName, found) ==
    IF found THEN roomName ELSE previousRoom

\* socket.on('join_room')
join_room(c, roomName) ==
    /\ status[c] = "live"
    /\ \E plan \in Plans, f \in {"none", "getRoomByName"} :
          LET previousRoom == data[c].currentRoom
              jn1 == joinedAfterLeave(c, previousRoom, roomName)
              ru1 == usersAfterLeave(c, previousRoom, roomName)
              ev1 == eventsOfLeave(c, previousRoom, roomName, f)
              room == stmt_getRoomByName(roomName)
              jn2 == [jn1 EXCEPT ![c] = @ \cup {roomName}]
              ru2 == PresenceAdd(ru1, roomName, c)
          IN  /\ last' = [Idle EXCEPT !.op = "join_room", !.conn = c,
                                      !.room = roomName, !.prev = previousRoom,
                                      !.existed = db_roomExists(roomName),
                                      !.fault = f]
              /\ IF f = "getRoomByName"
                 THEN /\ joined' = jn1
                      /\ roomUsers' = ru1
                      /\ data' = [data EXCEPT ![c].currentRoom =
                                   currentRoomAfterJoin(previousRoom, roomName,
                                                        FALSE)]
                      /\ out' = ev1 \o <<error(c, "Failed to join room")>>
                 ELSE IF room = NoRoomRow
                 THEN /\ joined' = jn1
                      /\ roomUsers' = ru1
                      /\ data' = [data EXCEPT ![c].currentRoom =
                                   currentRoomAfterJoin(previousRoom, roomName,
                                                        FALSE)]
                      /\ out' = ev1 \o <<error(c, "Room does not exist")>>
                 ELSE /\ joined' = jn2
                      /\ roomUsers' = ru2
                      /\ data' = [data EXCEPT ![c].currentRoom =
                                   currentRoomAfterJoin(previousRoom, roomName,
                                                        TRUE)]
                      /\ out' = ev1 \o
                           <<Event("message_history", ToSelf(c),
                                   [messages |->
                                      db_getMessagesByRoom(roomName, plan, f)]),
                             Event("joined_room", ToSelf(c),
                                   [room |-> roomName,
                                    username |-> data[c].username]),
                             Event("user_joined", ToOthers(jn2, roomName, c),
                                   [username |-> data[c].username,
                                    message |-> data[c].username
                                                  \o " joined the room"]),
                             room_updated(status, ru2, messages, roomName, f)>>
    /\ UNCHANGED <<dbVars, status, http, appended, sends>>

\* Mutant of eventsOfSend: the handler without its !savedMessage check.
eventsOfSend_unchecked(c, currentRoom, text, savedMessage, msgs, f) ==
    <<Event("new_message", ToRoom(joined, currentRoom),
            [id |-> savedMessage.id, text |-> text,
             username |-> data[c].username, room |-> currentRoom,
             timestamp |-> savedMessage.timestamp]),
      room_updated(status, roomUsers, msgs, currentRoom, f)>>

\* send_message, lines 172-193: what the handler emits once saveMessage
\* has returned savedMessage and left the messages table msgs.
eventsOfSend(c, currentRoom, text, savedMessage, msgs, f) ==
    IF savedMessage = NoMessage
    THEN <<error(c, "Failed to save message")>>
    ELSE <<Event("new_message", ToRoom(joined, currentRoom),
                 [id |-> savedMessage.id, text |-> text,
                  username |-> data[c].username, room |-> currentRoom,
                  timestamp |-> savedMessage.timestamp]),
           room_updated(status, roomUsers, msgs, currentRoom, f)>>

\* socket.on('send_message')
send_message(c, text) ==
    /\ status[c] = "live"
    /\ sends < MaxSends
    /\ sends' = sends + 1
    /\ LET currentRoom == data[c].currentRoom
       IN  IF currentRoom = null
           THEN /\ out' = <<error(c, "You must join a room first")>>
                /\ last' = [Idle EXCEPT !.op = "send_message", !.conn = c]
                /\ UNCHANGED <<messages, msgSeq, clock, appended>>
           ELSE \E t \in Now, plan \in Plans,
                   f \in {"none", "getRoomByName", "saveMessage",
                          "deleteOldMessages", "getMessageCount"} :
                   LET r == db_saveMessage(currentRoom, data[c].username,
                                           text, t, plan, f)
                   IN  /\ messages' = r.messages
                       /\ msgSeq' = r.msgSeq
                       /\ clock' = IF r.msgSeq = msgSeq THEN clock ELSE t
                       /\ appended' = IF r.ret = NoMessage THEN appended
                                      ELSE [appended EXCEPT ![currentRoom] =
                                              Append(@, r.msgSeq)]
                       /\ out' = eventsOfSend(c, currentRoom, text, r.ret,
                                               r.messages, f)
                       /\ last' = [Idle EXCEPT !.op = "send_message",
                                     !.conn = c, !.room = currentRoom,
                                     !.prev = currentRoom,
                                     !.existed = db_roomExists(currentRoom),
                                     !.saved = r.ret, !.fault = f]
    /\ UNCHANGED <<rooms, status, data, joined, roomUsers, http>>

\* Mutant of eventsOfTyping: io.emit written for socket.to(currentRoom).emit.
eventsOfTyping_toAll(c, currentRoom, isTyping) ==
    IF currentRoom # null
    THEN <<Event("user_typing", Live(status),
                 [username |-> data[c].username, isTyping |-> isTyping])>>
    ELSE <<>>

\* typing, lines 205-211: what the handler emits.
eventsOfTyping(c, currentRoom, isTyping) ==
    IF currentRoom # null
    THEN <<Event("user_typing", ToOthers(joined, currentRoom, c),
                 [username |-> data[c].username, isTyping |-> isTyping])>>
    ELSE <<>>

\* socket.on('typing')
typing(c, isTyping) ==
    /\ status[c] = "live"
    /\ out' = eventsOfTyping(c, data[c].currentRoom, isTyping)
    /\ last' = [Idle EXCEPT !.op = "typing", !.conn = c,
                            !.prev = data[c].currentRoom,
                            !.isTyping = isTyping]
    /\ UNCHANGED <<dbVars, status, data, joined, roomUsers, http, appended,
                   sends>>

\* Mutant of eventsOfCreate: the announcement is sent by the creator's
\* socket to the others (socket.broadcast.emit) and again to everyone.
eventsOfCreate_twice(c, roomName) ==
    <<Event("room_created", Live(status) \ {c},
            [name |-> roomName, userCount |-> 0, messageCount |-> 0]),
      Event("room_created", Live(status),
            [name |-> roomName, userCount |-> 0, messageCount |-> 0]),
      Event("room_created_success", ToSelf(c), [roomName |-> roomName])>>

\* create_room, lines 237-244: what the handler emits once the room is
\* created.
eventsOfCreate(c, roomName) ==
    <<Event("room_created", Live(status),
            [name |-> roomName, userCount |-> 0, messageCount |-> 0]),
      Event("room_created_success", ToSelf(c), [roomName |-> roomName])>>

\* socket.on('create_room')
create_room(c, roomName) ==
    /\ status[c] = "live"
    /\ \E t \in Now, f \in {"none", "getRoomByName", "createRoom"} :
          LET r == db_createRoom(roomName, t, f)
              rejected == f = "getRoomByName" \/ db_roomExists(roomName)
              done == ~rejected /\ r.ret
          IN  /\ rooms' = IF rejected THEN rooms ELSE r.rooms
              /\ clock' = IF done THEN t ELSE clock
              /\ roomUsers' = IF done THEN PresenceSet(roomUsers, roomName)
                              ELSE roomUsers
              /\ out' = IF f = "getRoomByName"
                           THEN <<error(c, "Failed to create room")>>
                        ELSE IF db_roomExists(roomName)
                           THEN <<error(c, "Room already exists")>>
                        ELSE IF ~r.ret
                           THEN <<error(c, "Failed to create room")>>
                        ELSE eventsOfCreate(c, roomName)
              /\ last' = [Idle EXCEPT !.op = "create_room", !.conn = c,
                                      !.room = roomName,
                                      !.prev = data[c].currentRoom,
                                      !.existed = db_roomExists(roomName),
                                      !.created = done, !.fault = f]
    /\ UNCHANGED <<messages, msgSeq, status, data, joined, http, appended,
                   sends>>

\* socket.on('disconnect'): the transport has already removed the socket
\* from the namespace and from its rooms when the handler runs; the socket
\* object, and socket.data with it, is unreachable once it returns.
disconnect(c) ==
    /\ status[c] = "live"
    /\ status' = [status EXCEPT ![c] = "closed"]
    /\ joined' = [joined EXCEPT ![c] = {}]
    /\ \E f \in {"none"} :
          LET currentRoom == data[c].currentRoom
          IN  IF currentRoom # null
              THEN /\ roomUsers' = PresenceDelete(roomUsers, currentRoom, c)
                   /\ out' = <<Event("user_left",
                                     ToOthers(joined', currentRoom, c),
                                     [username |-> data[c].username,
                                      message |-> data[c].username
                                                    \o " left the room"]),
                               room_updated(status', roomUsers', messages,
                                            currentRoom, f)>>
              ELSE /\ roomUsers' = roomUsers
                   /\ out' = <<>>
    /\ data' = [data EXCEPT ![c] = [username |-> null, currentRoom |-> null]]
    /\ last' = [Idle EXCEPT !.op = "disconnect", !.conn = c,
                            !.prev = data[c].currentRoom]
    /\ UNCHANGED <<dbVars, http, appended, sends>>

\* The process ends and server.js is loaded again on the same chat.db: every
\* socket of the old process is gone, roomUsers = new Map(), and
\* database.initDefaultRooms(defaultRooms) runs.
restart ==
    /\ \E t \in Now :
          /\ rooms' = db_initDefaultRooms(rooms, defaultRooms, t)
          /\ clock' = IF rooms' = rooms THEN clock ELSE t
    /\ roomUsers' = [n \in {} |-> {}]
    /\ status' = [c \in Conns |->
                    IF status[c] = "live" THEN "closed" ELSE status[c]]
    /\ data' = [c \in Conns |-> [username |-> null, currentRoom |-> null]]
    /\ joined' = [c \in Conns |-> {}]
    /\ out' = <<>>
    /\ http' = NoResponse
    /\ last' = [Idle EXCEPT !.op = "restart"]
    /\ UNCHANGED <<messages, msgSeq, appended, sends>>

\* app.get('/api/rooms')
api_rooms ==
    /\ \E plan \in RoomPlans, f \in {"none", "getAllRooms"} :
          LET all == stmt_getAllRooms(TieOf(plan, "ASC"))
              list == [k \in DOMAIN all |->
                         [name |-> all[k].name,
                          userCount |-> userCount(roomUsers, all[k].name),
                          messageCount |-> db_getMessageCount(messages, all[k].name,
                                                             f)]]
          IN  /\ http' = IF f = "getAllRooms"
                         THEN [status |-> 500, body |-> <<>>]
                         ELSE [status |-> 200, body |-> list]
              /\ last' = [Idle EXCEPT !.op = "api_rooms", !.fault = f]
    /\ out' = <<>>
    /\ UNCHANGED <<dbVars, status, data, joined, roomUsers, appended, sends>>

Next ==
    \/ \E c \in Conns : connection(c) /\ UNCHANGED ui
    \/ \E c \in Conns, roomName \in JoinNames :
          join_room(c, roomName) /\ UNCHANGED ui
    \/ \E c \in Conns : send_message(c, "hello") /\ UNCHANGED ui
    \/ \E c \in Conns, isTyping \in BOOLEAN :
          typing(c, isTyping) /\ UNCHANGED ui
    \/ \E c \in Conns, roomName \in CreateNames :
          create_room(c, roomName) /\ UNCHANGED ui
    \/ \E c \in Conns : disconnect(c) /\ UNCHANGED ui
    \/ restart /\ UNCHANGED ui

Spec == Init /\ [][Next]_vars

\* The catalog alone: rooms are created and listed, to a connecting socket
\* and over HTTP.
NextRooms ==
    \/ \E name \in StoreCreateNames : createRoom(name) /\ UNCHANGED ui
    \/ \E c \in Conns : connection(c) /\ UNCHANGED ui
    \/ api_rooms /\ UNCHANGED ui

SpecRooms == Init /\ [][NextRooms]_vars

----------------------------------------------------------------------------
(* App.tsx: one browser client in front of the server.  Its socket is the  *)
(* socket.io-client Socket made once by io(serverUrl, {reconnection: true, *)
(* reconnectionAttempts: 5}); every (re)connection of it is a new socket   *)
(* on the server.  A packet the client emits waits in ui.emits until the   *)
(* server's handler runs; what that handler emits back to the socket is    *)
(* handled by the client in the same step.                                 *)

Emit(event, roomName, text, isTyping) ==
    [event |-> event, roomName |-> roomName, text |-> text,
     isTyping |-> isTyping]

\* newSocket.on('joined_room'): setCurrentRoom(data.room).  No other handler
\* of App.tsx calls setCurrentRoom.
onJoinedRoom(currentRoom, events, sid) ==
    LET js == {k \in DOMAIN events :
                 events[k].type = "joined_room" /\ sid \in events[k].to}
    IN  IF js = {}
        THEN currentRoom
        ELSE events[CHOOSE k \in js : \A j \in js : j <= k].data.room

\* The transport connects, for the first time or again by the reconnection
\* of socket.io-client: the server's connection handler runs for a new
\* socket, and newSocket.on('connect') does setIsConnected(true).
onConnect ==
    /\ ~ui.isConnected
    /\ \E c \in Conns :
          /\ status[c] = "new"
          /\ \A d \in Conns : status[d] = "new" => c <= d
          /\ connection(c)
          /\ ui' = [ui EXCEPT !.sid = c, !.isConnected = TRUE]

\* The transport drops: the server's disconnect handler runs for the socket,
\* the packets in flight are lost, and newSocket.on('disconnect') does
\* setIsConnected(false) and nothing else.
onDisconnect ==
    /\ ui.isConnected
    /\ disconnect(ui.sid)
    /\ ui' = [ui EXCEPT !.isConnected = FALSE, !.emits = <<>>]

\* handleJoinRoom(roomName)
handleJoinRoom(roomName) ==
    /\ ui.isConnected
    /\ roomName # ui.currentRoom
    /\ Len(ui.emits) < MaxInFlight
    /\ ui' = [ui EXCEPT !.emits =
                 Append(@, Emit("join_room", roomName, "", FALSE))]
    /\ UNCHANGED serverVars

\* handleSendMessage(e), with messageInput = text
handleSendMessage(text) ==
    /\ ui.isConnected
    /\ ui.currentRoom # null
    /\ Len(ui.emits) + 2 <= MaxInFlight
    /\ sends < MaxSends
    /\ ui' = [ui EXCEPT !.emits =
                 @ \o <<Emit("send_message", null, text, FALSE),
                        Emit("typing", null, "", FALSE)>>]
    /\ UNCHANGED serverVars

\* The server handles the oldest packet of the client: socket.on(event) of
\* the client's current socket runs, and the client handles what came back.
onPacket ==
    /\ ui.emits # <<>>
    /\ LET e == Head(ui.emits)
       IN  \/ e.event = "join_room" /\ join_room(ui.sid, e.roomName)
           \/ e.event = "send_message" /\ send_message(ui.sid, e.text)
           \/ e.event = "typing" /\ typing(ui.sid, e.isTyping)
    /\ ui' = [ui EXCEPT !.emits = Tail(@),
                        !.currentRoom = onJoinedRoom(@, out', ui.sid)]

NextClient ==
    \/ onConnect
    \/ onDisconnect
    \/ \E roomName \in JoinNames : handleJoinRoom(roomName)
    \/ handleSendMessage("hello")
    \/ onPacket

SpecClient == Init /\ [][NextClient]_vars

----------------------------------------------------------------------------
(* Properties of the event router *)

\* The presence set of a room; empty when the Map has no such key.
PresenceOf(room) == IF room \in DOMAIN roomUsers THEN roomUsers[room] ELSE {}

\* The persisted message count of a room, by name.
CountOf(name) == stmt_getMessageCount(messages, name)

\* The number of rows of the rooms table carrying a name.
Named(rms, name) == Cardinality({i \in DOMAIN rms : rms[i].name = name})

\* C1: a live connection is in the presence set of a room exactly when that
\* room is its currentRoom, so the presence count of a room is the number of
\* live connections whose currentRoom it is.
C1_PresenceMatchesSession ==
    \A r \in AllNames :
       /\ \A c \in Live(status) :
             c \in PresenceOf(r) <=> data[c].currentRoom = r
       /\ userCount(roomUsers, r) =
             Cardinality({c \in Live(status) : data[c].currentRoom = r})

\* C2: join_room of a name that is not in the catalog changes no session and
\* no presence set and emits one event, an error to the caller alone.
C2_JoinAbsentRoom ==
    [][(last'.op = "join_room" /\ ~last'.existed) =>
          /\ data' = data
          /\ roomUsers' = roomUsers
          /\ Len(out') = 1
          /\ out'[1].type = "error"
          /\ out'[1].to = {last'.conn}]_vars

\* C3: a connection identifier is in at most one presence set.
C3_OnePresenceSet ==
    \A c \in Conns :
       Cardinality({r \in DOMAIN roomUsers : c \in roomUsers[r]}) <= 1

\* C3 witness: a connection that has just moved from one room into another.
C3_Witness ==
    /\ last.op = "join_room"
    /\ last.existed
    /\ last.prev # null
    /\ last.prev # last.room
    /\ last.prev \in DOMAIN roomUsers
    /\ last.conn \in PresenceOf(last.room)

\* C8: a send_message of a connection with a currentRoom, once persisted,
\* is delivered as new_message to the whole presence set of that room and to
\* the sender, and room_updated for that room goes to every connected client.
C8_SendBroadcast ==
    (last.op = "send_message" /\ last.prev # null /\ last.saved # NoMessage) =>
       /\ \E i \in DOMAIN out :
             /\ out[i].type = "new_message"
             /\ out[i].data.id = last.saved.id
             /\ out[i].data.text = last.saved.text
             /\ (PresenceOf(last.prev) \cup {last.conn}) \subseteq out[i].to
       /\ \E j \in DOMAIN out :
             /\ out[j].type = "room_updated"
             /\ out[j].data.name = last.prev
             /\ out[j].to = Live(status)

\* C9: send_message without a current room, and create_room of a name that
\* exists, emit one event, an error to the caller alone, and change neither
\* the catalog, the messages, the presence sets nor any session.
C9_ValidationIsLocal ==
    [][(\/ last'.op = "send_message" /\ last'.prev = null
        \/ last'.op = "create_room" /\ last'.existed) =>
          /\ Len(out') = 1
          /\ out'[1].type = "error"
          /\ out'[1].to = {last'.conn}
          /\ UNCHANGED <<rooms, messages, msgSeq, roomUsers, data, joined,
                         status>>]_vars

\* C9 witness: a create_room of an existing name was refused while another
\* client was connected.
C9_Witness ==
    /\ last.op = "create_room"
    /\ last.existed
    /\ Cardinality(Live(status)) >= 2
    /\ out = <<error(last.conn, "Room already exists")>>

\* C10: when saveMessage returns null to send_message, the handler emits one
\* event, an error to the sender: no new_message and no room_updated.
C10_FailedSaveNoBroadcast ==
    (last.op = "send_message" /\ last.prev # null /\ last.saved = NoMessage) =>
       /\ Len(out) = 1
       /\ out[1].type = "error"
       /\ out[1].to = {last.conn}

\* C10 witness: a save failed while another client was in the sender's room.
C10_Witness ==
    /\ last.op = "send_message"
    /\ last.prev # null
    /\ last.saved = NoMessage
    /\ ToOthers(joined, last.prev, last.conn) # {}
    /\ out = <<error(last.conn, "Failed to save message")>>

\* The positions of out that hold an event of a type.
Emitted(type) == {i \in DOMAIN out : out[i].type = type}

\* C11: join_room of a room of the catalog puts the caller in that room's
\* presence set and makes it the caller's currentRoom; the caller receives
\* message_history for the room and then joined_room with its username; the
\* other occupants of the room, and not the caller, receive user_joined; and
\* every connected client receives room_updated for the room.
C11_JoinExistingRoom ==
    (last.op = "join_room" /\ last.existed /\ last.fault # "getRoomByName") =>
       /\ last.conn \in PresenceOf(last.room)
       /\ data[last.conn].currentRoom = last.room
       /\ \E i \in Emitted("message_history"), j \in Emitted("joined_room") :
             /\ i < j
             /\ out[i].to = {last.conn}
             /\ \E plan \in Plans :
                   out[i].data.messages =
                      db_getMessagesByRoom(last.room, plan, "none")
             /\ out[j].to = {last.conn}
             /\ out[j].data = [room |-> last.room,
                               username |-> data[last.conn].username]
       /\ Cardinality(Emitted("user_joined")) = 1
       /\ \A k \in Emitted("user_joined") :
             /\ out[k].to = PresenceOf(last.room) \ {last.conn}
             /\ out[k].data.username = data[last.conn].username
       /\ \E m \in Emitted("room_updated") :
             /\ out[m].data.name = last.room
             /\ out[m].to = Live(status)

\* C11 witness: a join of a room that holds a message and another occupant,
\* who is told of it.
C11_Witness ==
    /\ last.op = "join_room"
    /\ last.existed
    /\ last.fault = "none"
    /\ CountOf(last.room) > 0
    /\ \E k \in Emitted("user_joined") : out[k].to # {}
    /\ last.conn \in PresenceOf(last.room)

\* C12: when a connection whose currentRoom is A joins an existing room B
\* other than A, the presence count of A goes down by one and that of B up
\* by one, the occupants left in A receive user_left for it, and every
\* connected client receives room_updated for A and, after it, for B.
C12_SwitchRooms ==
    [][(/\ last'.op = "join_room"
        /\ last'.existed
        /\ last'.fault = "none"
        /\ last'.prev # null
        /\ last'.prev # last'.room) =>
          /\ userCount(roomUsers', last'.prev) =
                userCount(roomUsers, last'.prev) - 1
          /\ userCount(roomUsers', last'.room) =
                userCount(roomUsers, last'.room) + 1
          /\ \E k \in DOMAIN out' :
                /\ out'[k].type = "user_left"
                /\ out'[k].data.username = data[last'.conn].username
                /\ out'[k].to = IF last'.prev \in DOMAIN roomUsers'
                                THEN roomUsers'[last'.prev] ELSE {}
          /\ \E i, j \in DOMAIN out' :
                /\ i < j
                /\ out'[i].type = "room_updated"
                /\ out'[i].data.name = last'.prev
                /\ out'[i].to = Live(status)
                /\ out'[j].type = "room_updated"
                /\ out'[j].data.name = last'.room
                /\ out'[j].to = Live(status)]_vars

\* C13: user_joined and user_left reach only members of the presence set of
\* the room joined or left, and never the connection that caused them;
\* room_updated and room_created reach every connected client.
C13_BroadcastAudience ==
    /\ \A k \in Emitted("user_joined") :
          /\ out[k].to \subseteq PresenceOf(last.room)
          /\ last.conn \notin out[k].to
    /\ \A k \in Emitted("user_left") :
          /\ out[k].to \subseteq PresenceOf(last.prev)
          /\ last.conn \notin out[k].to
    /\ \A k \in Emitted("room_updated") \cup Emitted("room_created") :
          out[k].to = Live(status)

\* C13 witness: a connection moved between rooms; the occupant of the room
\* it left is told so, and is also sent the count of the room it is not in.
C13_Witness ==
    /\ last.op = "join_room"
    /\ \E k \in Emitted("user_left"), m \in Emitted("room_updated") :
          /\ out[k].to # {}
          /\ out[m].data.name = last.room
          /\ \E c \in out[m].to : c # last.conn /\ last.room \notin joined[c]
    /\ Emitted("user_joined") # {}

\* C14: the disconnect of a connection whose currentRoom is r takes it out of
\* r's presence set, sends user_left to the occupants that remain and
\* room_updated for r, with a userCount that leaves the connection out, to
\* every connected client; the disconnect of a connection without a
\* currentRoom emits nothing and changes no presence set.
C14_Disconnect ==
    [][last'.op = "disconnect" =>
         IF last'.prev # null
         THEN LET remaining == PresenceOf(last'.prev) \ {last'.conn}
              IN  /\ DOMAIN roomUsers' = DOMAIN roomUsers
                  /\ \A r \in DOMAIN roomUsers :
                        roomUsers'[r] = roomUsers[r] \ {last'.conn}
                  /\ \E k \in DOMAIN out' :
                        /\ out'[k].type = "user_left"
                        /\ out'[k].data.username = data[last'.conn].username
                        /\ out'[k].to = remaining
                  /\ \E m \in DOMAIN out' :
                        /\ out'[m].type = "room_updated"
                        /\ out'[m].data.name = last'.prev
                        /\ out'[m].data.userCount = Cardinality(remaining)
                        /\ out'[m].to = Live(status) \ {last'.conn}
         ELSE out' = <<>> /\ roomUsers' = roomUsers]_vars

\* C14 witness: a connection has left a room by disconnecting while another
\* occupant stayed.
C14_Witness ==
    /\ last.op = "disconnect"
    /\ last.prev # null
    /\ status[last.conn] = "closed"
    /\ PresenceOf(last.prev) # {}
    /\ \E k \in Emitted("user_left") : out[k].to = PresenceOf(last.prev)

\* C15: of the create_room events that several connections issue for one new
\* name, in any order, the first is answered by one room_created (userCount
\* 0, messageCount 0) to every connected client and room_created_success to
\* its issuer, and adds one entry to the catalog; each later one is answered
\* by one error to its issuer and adds nothing; so one issuer is acknowledged
\* and the name has one entry.
C15_CreateRace ==
    [][last'.op = "create_room" =>
         /\ (~last'.existed /\ last'.fault = "none") =>
               /\ out' = <<Event("room_created", Live(status),
                                 [name |-> last'.room, userCount |-> 0,
                                  messageCount |-> 0]),
                           Event("room_created_success", {last'.conn},
                                 [roomName |-> last'.room])>>
               /\ Len(rooms') = Len(rooms) + 1
               /\ Named(rooms, last'.room) = 0
         /\ last'.existed =>
               /\ Len(out') = 1
               /\ out'[1].type = "error"
               /\ out'[1].to = {last'.conn}
               /\ rooms' = rooms
         /\ Named(rooms', last'.room) <= 1
         /\ (\E k \in DOMAIN out' : out'[k].type = "room_created_success")
               => Named(rooms, last'.room) = 0]_vars

\* C15 witness: with two clients connected, a create_room for Launch that
\* comes after the one that created it is refused and the catalog holds
\* Launch once.
C15_Witness ==
    /\ last.op = "create_room"
    /\ last.room = "Launch"
    /\ last.existed
    /\ last.fault = "none"
    /\ Cardinality(Live(status)) >= 2
    /\ Named(rooms, "Launch") = 1
    /\ Emitted("error") = {1}
    /\ Emitted("room_created") = {}

\* The rows of messages that belong to the room of a name.
Persisted(name) ==
    {i \in DOMAIN messages :
        \E j \in DOMAIN rooms : /\ rooms[j].name = name
                                 /\ rooms[j].id = messages[i].room_id}

\* C16: every room_updated carries as userCount the size of the named room's
\* presence set and as messageCount the number of messages persisted for it.
\* When B alone joins the empty room Launch it receives an empty history and
\* joined_room and nobody receives user_joined; B's message there, the first
\* row ever inserted, is answered by new_message to B and
\* room_updated{Launch, 1, 1} to everyone.
C16_CountsInRoomUpdated ==
    /\ \A k \in Emitted("room_updated") :
          /\ out[k].data.userCount = Cardinality(PresenceOf(out[k].data.name))
          /\ last.fault # "getMessageCount" =>
                out[k].data.messageCount =
                   Cardinality(Persisted(out[k].data.name))
    /\ (/\ last.op = "join_room" /\ last.room = "Launch" /\ last.existed
        /\ last.fault = "none"
        /\ PresenceOf("Launch") = {last.conn}
        /\ Persisted("Launch") = {}) =>
          /\ \E i \in Emitted("message_history") :
                out[i].to = {last.conn} /\ out[i].data.messages = <<>>
          /\ \E j \in Emitted("joined_room") :
                out[j].to = {last.conn} /\ out[j].data.room = "Launch"
          /\ \A k \in Emitted("user_joined") : out[k].to = {}
    /\ (/\ last.op = "send_message" /\ last.prev = "Launch"
        /\ last.fault = "none"
        /\ PresenceOf("Launch") = {last.conn}
        /\ last.saved # NoMessage
        /\ msgSeq = 1) =>
          /\ Len(out) = 2
          /\ out[1].type = "new_message"
          /\ out[1].to = {last.conn}
          /\ out[1].data.text = "hello"
          /\ out[2] = Event("room_updated", Live(status),
                            [name |-> "Launch", userCount |-> 1,
                             messageCount |-> 1])

\* C16 witness: A and B are connected, B alone is in Launch and has just
\* sent its first message there.
C16_Witness ==
    /\ last.op = "send_message"
    /\ last.prev = "Launch"
    /\ last.fault = "none"
    /\ Cardinality(Live(status)) = 2
    /\ PresenceOf("Launch") = {last.conn}
    /\ last.saved # NoMessage
    /\ msgSeq = 1
    /\ \E k \in Emitted("room_updated") :
          out[k].data = [name |-> "Launch", userCount |-> 1,
                         messageCount |-> 1]

\* C17: typing changes neither the catalog, the messages, the presence sets
\* nor any session; from a connection without a currentRoom it emits
\* nothing; otherwise it emits one user_typing, carrying the sender's
\* username and the flag, to the occupants of the sender's room other than
\* the sender and to nobody else.
C17_Typing ==
    [][last'.op = "typing" =>
         /\ UNCHANGED <<rooms, messages, msgSeq, roomUsers, data, joined,
                        status>>
         /\ IF last'.prev = null
            THEN out' = <<>>
            ELSE /\ Len(out') = 1
                 /\ out'[1].type = "user_typing"
                 /\ out'[1].data = [username |-> data[last'.conn].username,
                                    isTyping |-> last'.isTyping]
                 /\ out'[1].to = PresenceOf(last'.prev) \ {last'.conn}
                 /\ last'.conn \notin out'[1].to
                 /\ \A c \in out'[1].to : data[c].currentRoom = last'.prev]_vars

\* C17 witness: a typing notice from a connection in a room reached the
\* other client, which is in that room.
C17_Witness ==
    /\ last.op = "typing"
    /\ last.isTyping
    /\ last.conn \in PresenceOf(last.prev)
    /\ \E k \in Emitted("user_typing") :
          out[k].to # {} /\ out[k].to = PresenceOf(last.prev) \ {last.conn}

\* C18: when a statement of the store throws while a handler runs, the
\* connection the event came from receives an error event and stays
\* connected.
C18_StoreFailureReported ==
    (last.op \in {"connection", "join_room", "send_message", "typing",
                  "create_room"} /\ last.fault # "none") =>
       /\ status[last.conn] = "live"
       /\ \E k \in Emitted("error") : out[k].to = {last.conn}

\* C19: after a connect the new connection has no currentRoom and it alone
\* has received one rooms_list, which holds one entry for every room of the
\* catalog, annotated with the size of the room's presence set and the
\* number of messages persisted for it.
C19_RoomsListOnConnect ==
    (last.op = "connection" /\ last.fault = "none") =>
       /\ status[last.conn] = "live"
       /\ data[last.conn].currentRoom = null
       /\ Len(out) = 1
       /\ out[1].type = "rooms_list"
       /\ out[1].to = {last.conn}
       /\ LET list == out[1].data.rooms
          IN  /\ Len(list) = Len(rooms)
              /\ \A i \in DOMAIN rooms :
                    \E k \in DOMAIN list :
                       list[k] = [name |-> rooms[i].name,
                                  userCount |->
                                     Cardinality(PresenceOf(rooms[i].name)),
                                  messageCount |->
                                     Cardinality(Persisted(rooms[i].name))]

\* C19 witness: a client connects when the catalog has gained Launch and a
\* room holds an occupant and a message.
C19_Witness ==
    /\ last.op = "connection"
    /\ last.fault = "none"
    /\ Named(rooms, "Launch") = 1
    /\ \E k \in DOMAIN out[1].data.rooms :
          /\ out[1].data.rooms[k].userCount = 1
          /\ out[1].data.rooms[k].messageCount = 1

\* C21: a join_room during which the store throws is abandoned as a whole:
\* the caller receives an error and nothing else is emitted, and the presence
\* sets, the transport rooms and every currentRoom are as before the event.
C21_JoinAbandoned ==
    [][(last'.op = "join_room" /\ last'.fault # "none") =>
          /\ Len(out') = 1
          /\ out'[1].type = "error"
          /\ out'[1].to = {last'.conn}
          /\ roomUsers' = roomUsers
          /\ joined' = joined
          /\ data' = data]_vars

\* C22: join_room for the room that is already the connection's currentRoom
\* changes no presence set and no session and emits no user_left, and it
\* emits the join sequence again: message_history and joined_room to the
\* caller, user_joined to the other occupants, room_updated to everyone.
C22_RejoinSameRoom ==
    [][(/\ last'.op = "join_room"
        /\ last'.prev = last'.room
        /\ last'.fault = "none") =>
          /\ roomUsers' = roomUsers
          /\ data' = data
          /\ \A k \in DOMAIN out' : out'[k].type # "user_left"
          /\ Len(out') = 4
          /\ out'[1].type = "message_history" /\ out'[1].to = {last'.conn}
          /\ out'[2].type = "joined_room" /\ out'[2].to = {last'.conn}
          /\ out'[3].type = "user_joined"
          /\ out'[3].to = roomUsers[last'.room] \ {last'.conn}
          /\ out'[4].type = "room_updated" /\ out'[4].to = Live(status)]_vars

\* C23: a connection goes from new to live to closed and never back; it is
\* live without a currentRoom after connect; while it stays live its
\* currentRoom, once set, is never null again and changes only by its own
\* join_room, a join that fails from no room leaves it without one, and its
\* username never changes.
C23_SessionStates ==
    [][/\ \A c \in Conns :
            /\ status'[c] # status[c] =>
                  <<status[c], status'[c]>> \in
                     {<<"new", "live">>, <<"live", "closed">>}
            /\ (status[c] = "new" /\ status'[c] = "live") =>
                  data'[c].currentRoom = null
            /\ (status[c] = "live" /\ status'[c] = "live") =>
                  /\ data'[c].username = data[c].username
                  /\ data[c].currentRoom # null => data'[c].currentRoom # null
                  /\ data'[c].currentRoom # data[c].currentRoom =>
                        /\ last'.op = "join_room"
                        /\ last'.conn = c
                        /\ last'.existed
                        /\ data'[c].currentRoom = last'.room
       /\ (/\ last'.op = "join_room"
           /\ last'.prev = null
           /\ ~last'.existed \/ last'.fault # "none") =>
             data'[last'.conn].currentRoom = null]_vars

\* C23 witness: a join was refused to a connection without a room, which
\* is still without one, while the other connection is in a room.
C23_Witness ==
    /\ last.op = "join_room"
    /\ last.prev = null
    /\ ~last.existed
    /\ status[last.conn] = "live"
    /\ data[last.conn].currentRoom = null
    /\ \E c \in Live(status) : data[c].currentRoom # null

\* C25: a restart leaves every room with a presence count of zero and leaves
\* the rooms table and the messages table as they were: the default-room
\* initialisation adds no second row for a name and removes no message.
C25_Restart ==
    [][last'.op = "restart" =>
         /\ \A r \in AllNames : userCount(roomUsers', r) = 0
         /\ rooms' = rooms
         /\ messages' = messages
         /\ msgSeq' = msgSeq
         /\ \A r \in AllNames : Named(rooms', r) <= 1
         /\ \A i \in DOMAIN defaultRooms : Named(rooms', defaultRooms[i]) = 1]_vars

\* C25 witness: a restart of a server whose catalog had gained Launch, whose
\* store held a message and which had served a socket.
C25_Witness ==
    /\ last.op = "restart"
    /\ Named(rooms, "Launch") = 1
    /\ Len(messages) = 1
    /\ \E c \in Conns : status[c] = "closed"
    /\ roomUsers = [n \in {} |-> {}]

\* C26: every persisted message belongs to a room of the catalog; saveMessage
\* for a name that is not in the catalog persists nothing and returns null;
\* every non-null currentRoom and every key of the presence map is a name of
\* the catalog; and a send_message from a connection with a currentRoom,
\* with no statement throwing, is persisted.
C26_RoomReferences ==
    /\ \A i \in DOMAIN messages :
          \E j \in DOMAIN rooms : rooms[j].id = messages[i].room_id
    /\ \A name \in AllNames, t \in Now, plan \in Plans :
          Named(rooms, name) = 0 =>
             LET r == db_saveMessage(name, Username(1), "hello", t, plan,
                                     "none")
             IN  r.messages = messages /\ r.ret = NoMessage
    /\ \A c \in Conns :
          data[c].currentRoom # null => Named(rooms, data[c].currentRoom) = 1
    /\ \A r \in DOMAIN roomUsers : Named(rooms, r) = 1
    /\ (last.op = "send_message" /\ last.prev # null /\ last.fault = "none")
          => /\ last.saved # NoMessage
             /\ \E i \in DOMAIN messages :
                   ToString(messages[i].id) = last.saved.id

\* C26 witness: a message was just sent into the created room Launch by a
\* connection whose last join, of a name not in the catalog, was refused.
C26_Witness ==
    /\ last.op = "send_message"
    /\ last.prev = "Launch"
    /\ last.saved # NoMessage
    /\ Named(rooms, "Nowhere") = 0
    /\ last.conn \notin PresenceOf("Launch")
    /\ \E i \in DOMAIN messages : messages[i].room_id = 5

\* C28: a create_room that succeeds changes no session, no transport room
\* and no presence set that existed, gives the new room an empty presence
\* set, and leaves the messages as they were.
C28_CreateMovesNobody ==
    [][(last'.op = "create_room" /\ last'.created) =>
          /\ data' = data
          /\ joined' = joined
          /\ status' = status
          /\ DOMAIN roomUsers' = DOMAIN roomUsers \cup {last'.room}
          /\ \A r \in DOMAIN roomUsers : roomUsers'[r] = roomUsers[r]
          /\ last'.room \notin DOMAIN roomUsers
          /\ roomUsers'[last'.room] = {}
          /\ messages' = messages
          /\ msgSeq' = msgSeq]_vars

\* C28 witness: a room was created by a connection that is in a room which
\* holds a message, and it is still there.
C28_Witness ==
    /\ last.op = "create_room"
    /\ last.created
    /\ last.prev # null
    /\ last.conn \in PresenceOf(last.prev)
    /\ data[last.conn].currentRoom = last.prev
    /\ PresenceOf(last.room) = {}
    /\ Len(messages) = 1

\* C29: a connection whose disconnect handler has run is a member of no
\* presence set.
C29_ClosedIsNowhere ==
    \A c \in Conns :
       status[c] = "closed" =>
          \A r \in DOMAIN roomUsers : c \notin roomUsers[r]

\* C29 witness: a disconnect of a connection that had a currentRoom, after
\* joins that have put more than one room in the presence map.
C29_Witness ==
    /\ last.op = "disconnect"
    /\ last.prev # null
    /\ status[last.conn] = "closed"
    /\ \E r \in DOMAIN roomUsers : r # last.prev
    /\ \E c \in Live(status) : data[c].currentRoom = last.prev

\* C30: for every live connection and every room, being in the transport
\* room (socket.join / socket.leave) is the same as being in the presence
\* set (roomUsers); so a new_message goes to the connections that userCount
\* counts.
C30_FanOutMatchesPresence ==
    /\ \A c \in Live(status), r \in AllNames :
          r \in joined[c] <=> c \in PresenceOf(r)
    /\ \A r \in AllNames :
          Cardinality(ToRoom(joined, r)) = userCount(roomUsers, r)
    /\ \A k \in Emitted("new_message") :
          /\ out[k].to = PresenceOf(out[k].data.room)
          /\ \A m \in Emitted("room_updated") :
                out[m].data.userCount = Cardinality(out[k].to)

\* C30 witness: a message was sent into a room that holds both connections,
\* one of which came from another room.
C30_Witness ==
    /\ last.op = "send_message"
    /\ last.saved # NoMessage
    /\ Cardinality(PresenceOf(last.prev)) = 2
    /\ Cardinality(DOMAIN roomUsers) >= 2
    /\ \E k \in Emitted("new_message") : Cardinality(out[k].to) = 2

\* C31: a user_left for a connection and a room is emitted only by a handler
\* that found the connection in the presence set of that room, so there are
\* never more user_left notices for the pair than entries of the connection
\* into the room.
C31_LeftOnlyIfPresent ==
    [][\A k \in DOMAIN out' :
          out'[k].type = "user_left" =>
             /\ last'.prev # null
             /\ last'.conn \in PresenceOf(last'.prev)]_vars

\* C32: whenever the client is connected, has no packet in flight and
\* shows currentRoom R, the session of its current socket has currentRoom R
\* and the socket is in the presence set of R.
C32_ClientServerAgree ==
    (ui.isConnected /\ ui.emits = <<>> /\ ui.currentRoom # null) =>
        /\ data[ui.sid].currentRoom = ui.currentRoom
        /\ ui.sid \in PresenceOf(ui.currentRoom)

----------------------------------------------------------------------------
(* Properties of the store *)

\* The names of a list of rooms, in the order of the list.
NamesOf(list) == [k \in DOMAIN list |-> list[k].name]

C4_RetentionCap ==
    (last.op = "saveMessage" /\ last.saved # NoMessage) =>
        \A i \in DOMAIN rooms : CountOf(rooms[i].name) <= RetentionCap

\* C4 witness: a room that received more appends than the cap, just written.
C4_Witness ==
    /\ last.op = "saveMessage"
    /\ last.saved # NoMessage
    /\ Len(appended[last.room]) > RetentionCap
    /\ CountOf(last.room) = RetentionCap

\* C5: the history of every room is exactly the latest min(n, 100) of the n
\* messages appended to it, oldest first.
C5_HistoryIsLatest ==
    \A name \in AllNames, plan \in Plans :
       LET h == db_getMessagesByRoom(name, plan, "none")
           a == appended[name]
           k == Min(Len(a), HistoryLimit)
       IN  /\ Len(h) = k
           /\ \A i \in 1..k : h[i].id = ToString(a[Len(a) - k + i])

\* C6: a message that saveMessage returned is in the next history of its
\* room, and in the next answer of GET /api/rooms/:roomName/messages, with
\* the same author and text.
Carries(list, msg) ==
    \E k \in DOMAIN list : /\ list[k].id = msg.id
                           /\ list[k].username = msg.username
                           /\ list[k].text = msg.text

C6_RoundTrip ==
    /\ (last.op = "saveMessage" /\ last.saved # NoMessage) =>
          \A plan \in Plans :
             Carries(db_getMessagesByRoom(last.room, plan, "none"), last.saved)
    /\ (/\ last.op = "api_messages"
        /\ last.saved # NoMessage
        /\ stmt_getRoomByName(last.room).id = last.saved.room_id) =>
          Carries(http.body, last.saved)

\* C7: createRoom of an absent name returns true and adds one row; of a
\* present name it returns false and changes nothing; no name is ever held
\* by two rows.
C7_CreateIdempotent ==
    [][last'.op = "createRoom" =>
         /\ Named(rooms, last'.room) = 0 =>
               last'.created /\ Len(rooms') = Len(rooms) + 1
         /\ Named(rooms, last'.room) > 0 =>
               ~last'.created /\ rooms' = rooms
         /\ \A n \in AllNames \cup StoreCreateNames : Named(rooms', n) <= 1
         /\ Named(rooms', last'.room) = 1]_vars

\* C7 witness: the second createRoom of a name that the first one added.
C7_Witness ==
    /\ last.op = "createRoom"
    /\ last.existed
    /\ ~last.created
    /\ \A i \in DOMAIN defaultRooms : defaultRooms[i] # last.room
    /\ Named(rooms, last.room) = 1

\* C20: the rows that a saveMessage deletes from a room are the oldest ones
\* by timestamp and, among equal timestamps, by id: every row deleted is
\* older in that order than every row kept, and the row just inserted is
\* kept.
C20_EvictionOrder ==
    [][(last'.op = "saveMessage" /\ last'.saved # NoMessage) =>
         LET rid == last'.saved.room_id
             kept == {i \in DOMAIN messages' : messages'[i].room_id = rid}
             keptIds == {messages'[i].id : i \in kept}
             gone == {i \in DOMAIN messages :
                         /\ messages[i].room_id = rid
                         /\ messages[i].id \notin keptIds}
             Older(a, b) == \/ a.timestamp < b.timestamp
                            \/ a.timestamp = b.timestamp /\ a.id < b.id
         IN  /\ msgSeq' \in keptIds
             /\ \A d \in gone, k \in kept :
                   Older(messages[d], messages'[k])]_vars

\* C27: the Message that saveMessage returns is the persisted record: the
\* history of its room holds an entry with the same id and the same
\* timestamp.
C27_ReturnedIsPersisted ==
    (last.op = "saveMessage" /\ last.saved # NoMessage) =>
       \A plan \in Plans :
          \E k \in DOMAIN db_getMessagesByRoom(last.room, plan, "none") :
             LET entry == db_getMessagesByRoom(last.room, plan, "none")[k]
             IN  /\ entry.id = last.saved.id
                 /\ entry.timestamp = last.saved.timestamp

====
